---- MODULE Spec2Model ----
(***************************************************************************)
(* gh secret set <secret-name>: pkg/cmd/secret/set/set.go.                 *)
(*                                                                         *)
(* One behaviour of the model is one invocation of the command, from the   *)
(* moment cobra has parsed the command line and calls RunE (Args has       *)
(* accepted it: exactly one positional argument) with runF = nil, the      *)
(* production wiring.  RunE validates and then runs setRun, whose calls to *)
(* its collaborators are the steps of the model.  Every collaborator may   *)
(* succeed or fail.                                                        *)
(*                                                                         *)
(* A string that the code inspects character by character (the secret     *)
(* name) is a sequence of one-character strings; every other string is an  *)
(* opaque value.                                                           *)
(***************************************************************************)
EXTENDS Integers, Sequences, FiniteSets, TLC

\* Longest tail appended to a name stem, and longest --repos list.
MaxSuffixLen == 1
MaxRepos == 2

Nil == "nil"
NoErr == "nil error"

\* The literal prefix tested by strings.HasPrefix(name, "GITHUB_").
GITHUB_ == <<"G", "I", "T", "H", "U", "B", "_">>

\* Visibility values of package shared, as named by the error text.
All == "all"
Private == "private"
Selected == "selected"

\* Errors returned by the command.
ErrOrgEnv == "specify only one of '--org' or '--env'"
ErrBlank == "secret name cannot be blank"
ErrReserved == "secret name cannot begin with GITHUB_"
ErrLeadingNumber == "secret name cannot start with a number"
ErrChars == "secret name can only contain letters, numbers, and _"
ErrVisNoOrg == "--visibility not supported for repository secrets; did you mean to pass --org?"
ErrVisValue == "--visibility must be one of 'all', 'private', or 'selected'"
ErrReposNotSelected == "--repos only supported when --visibility='selected'"
ErrReposRequired == "--repos flag required when --visibility='selected'"
ErrBody == "did not understand secret body"
ErrHttpClient == "could not create http client"
ErrBaseRepo == "could not determine base repo"
ErrConfig == "config error"
ErrHost == "default host error"
ErrPubKey == "failed to fetch public key"
ErrEncrypt == "failed to encrypt body"
ErrSetSecret == "failed to set secret"

NameErrors == {ErrBlank, ErrReserved, ErrLeadingNumber, ErrChars}
FlagErrors == {ErrOrgEnv, ErrVisNoOrg, ErrVisValue, ErrReposNotSelected, ErrReposRequired}

(***************************************************************************)
(* Inputs.                                                                 *)
(***************************************************************************)
Digits == {"0", "9"}
Lower == {"a", "g", "i", "t", "h", "u", "b"}
Upper == {"G", "I", "T", "H", "U", "B"}
\* Characters a name tail is built from: a letter, a digit, the underscore
\* and a character outside [A-Za-z0-9_]; the stems bring the upper case.
TailChars == {"a", "9", "_", "-"}

SeqsUpTo(S, n) == UNION {[1..k -> S] : k \in 0..n}

\* Stems of the names: with a tail they give the names around the GITHUB_
\* prefix in both cases, and names with a leading digit before a character
\* outside the set.
Stems ==
    { <<>>, <<"9", "-">>, GITHUB_,
      <<"G", "I", "T", "H", "U", "B">>,
      <<"g", "i", "t", "h", "u", "b", "_">> }

Names == {s \o t : s \in Stems, t \in SeqsUpTo(TailChars, MaxSuffixLen)}

OrgNames == {"", "anOrg"}
EnvNames == {"", "anEnv"}
VisibilityValues == {All, Private, Selected, "public"}
\* The --repos lists: the first names of RepoNames, none to MaxRepos of them
\* (the command never looks into the list).
RepoNames == <<"repo1", "repo2", "repo3">>
RepoLists == {SubSeq(RepoNames, 1, k) : k \in 0..MaxRepos}
Bodies == {"", "val"}
KeyIds == {"key1", "key2"}

\* A flag on the command line: given or not, and its value if given.
VisibilityFlag ==
    {[set |-> FALSE, val |-> Private]}
        \cup {[set |-> TRUE, val |-> v] : v \in VisibilityValues}
ReposFlag ==
    {[set |-> FALSE, val |-> <<>>]}
        \cup {[set |-> TRUE, val |-> r] : r \in RepoLists}

CommandLines ==
    [name : Names, org : OrgNames, env : EnvNames,
     visibility : VisibilityFlag, repos : ReposFlag, body : Bodies]

VARIABLES
    argv,       \* the command line of the invocation (never changes)
    opts,       \* SetOptions
    changed,    \* cmd.Flags().Changed: the flags given on the command line
    pc,         \* position of the invocation
    err,        \* the error RunE returns, once pc = "done"
    calls,      \* calls made to the encryptor and the remote collaborators
    lookups,    \* repository names looked up for an organization write
    baseRepo,   \* setRun's baseRepo
    pk,         \* setRun's pk
    body,       \* setRun's body
    encoded,    \* setRun's encoded
    out         \* what was printed on opts.IO.Out

vars == <<argv, opts, changed, pc, err, calls, lookups, baseRepo, pk, body, encoded, out>>

(***************************************************************************)
(* Pure helpers.                                                           *)
(***************************************************************************)
\* strings.HasPrefix
HasPrefix(s, prefix) ==
    /\ Len(s) >= Len(prefix)
    /\ SubSeq(s, 1, Len(prefix)) = prefix

\* regexp ^[0-9]
leadingNumber(name) == Len(name) >= 1 /\ name[1] \in Digits

\* regexp ^([0-9]|[a-z]|[A-Z]|_)+$ ; without the m flag $ is the end of the text
validChars(name) ==
    /\ Len(name) >= 1
    /\ \A i \in 1..Len(name) : name[i] \in Digits \cup Lower \cup Upper \cup {"_"}

\* validSecretName with the character check ahead of the leading-digit check.
validSecretName_charsFirst(name) ==
    IF name = <<>> THEN ErrBlank
    ELSE IF HasPrefix(name, GITHUB_) THEN ErrReserved
    ELSE IF ~validChars(name) THEN ErrChars
    ELSE IF leadingNumber(name) THEN ErrLeadingNumber
    ELSE NoErr

validSecretName(name) ==
    IF name = <<>> THEN ErrBlank
    ELSE IF HasPrefix(name, GITHUB_) THEN ErrReserved
    ELSE IF leadingNumber(name) THEN ErrLeadingNumber
    ELSE IF ~validChars(name) THEN ErrChars
    ELSE NoErr

\* cmdutil.MutuallyExclusive(message, conditions...): the message as a flag
\* error when more than one condition holds.
MutuallyExclusive(message, a, b) == IF a /\ b THEN message ELSE NoErr

\* The flag definitions: each flag writes its field of opts, which keeps the
\* default when the flag is not given.
ParseFlags(cl) ==
    [SecretName |-> <<>>,
     OrgName |-> cl.org,
     EnvName |-> cl.env,
     Visibility |-> IF cl.visibility.set THEN cl.visibility.val ELSE Private,
     RepositoryNames |-> IF cl.repos.set THEN cl.repos.val ELSE <<>>,
     Body |-> cl.body]

FlagsChanged(cl) ==
    {f \in {"visibility"} : cl.visibility.set} \cup {f \in {"repos"} : cl.repos.set}

\* visibilityFlags without the check that selected visibility comes with --repos.
visibilityFlags_noReposRequired(o, chg) ==
    IF "visibility" \in chg
    THEN IF o.OrgName = "" THEN [err |-> ErrVisNoOrg, opts |-> o]
         ELSE IF o.Visibility # All /\ o.Visibility # Private /\ o.Visibility # Selected
              THEN [err |-> ErrVisValue, opts |-> o]
         ELSE IF o.Visibility # Selected /\ "repos" \in chg
              THEN [err |-> ErrReposNotSelected, opts |-> o]
         ELSE [err |-> NoErr, opts |-> o]
    ELSE IF "repos" \in chg
         THEN [err |-> NoErr, opts |-> [o EXCEPT !.Visibility = Selected]]
         ELSE [err |-> NoErr, opts |-> o]

\* visibilityFlags with --repos alone leaving the visibility as it is.
visibilityFlags_noImplicitSelected(o, chg) ==
    IF "visibility" \in chg
    THEN IF o.OrgName = "" THEN [err |-> ErrVisNoOrg, opts |-> o]
         ELSE IF o.Visibility # All /\ o.Visibility # Private /\ o.Visibility # Selected
              THEN [err |-> ErrVisValue, opts |-> o]
         ELSE IF o.Visibility # Selected /\ "repos" \in chg
              THEN [err |-> ErrReposNotSelected, opts |-> o]
         ELSE IF o.Visibility = Selected /\ "repos" \notin chg
              THEN [err |-> ErrReposRequired, opts |-> o]
         ELSE [err |-> NoErr, opts |-> o]
    ELSE [err |-> NoErr, opts |-> o]

\* The checks of RunE on the visibility and repos flags; o already holds the
\* secret name.
visibilityFlags(o, chg) ==
    IF "visibility" \in chg
    THEN IF o.OrgName = "" THEN [err |-> ErrVisNoOrg, opts |-> o]
         ELSE IF o.Visibility # All /\ o.Visibility # Private /\ o.Visibility # Selected
              THEN [err |-> ErrVisValue, opts |-> o]
         ELSE IF o.Visibility # Selected /\ "repos" \in chg
              THEN [err |-> ErrReposNotSelected, opts |-> o]
         ELSE IF o.Visibility = Selected /\ "repos" \notin chg
              THEN [err |-> ErrReposRequired, opts |-> o]
         ELSE [err |-> NoErr, opts |-> o]
    ELSE IF "repos" \in chg
         THEN [err |-> NoErr, opts |-> [o EXCEPT !.Visibility = Selected]]
         ELSE [err |-> NoErr, opts |-> o]

\* validate with the name checked ahead of the --org/--env exclusion.
validate_nameFirst(name, o, chg) ==
    LET o1 == [o EXCEPT !.SecretName = name]
    IN  IF validSecretName(name) # NoErr
        THEN [err |-> validSecretName(name), opts |-> o1]
        ELSE IF MutuallyExclusive(ErrOrgEnv, o.OrgName # "", o.EnvName # "") # NoErr
             THEN [err |-> ErrOrgEnv, opts |-> o1]
             ELSE visibilityFlags(o1, chg)

\* validate with the name checked after the visibility and repos flags.
validate_nameLast(name, o, chg) ==
    IF MutuallyExclusive(ErrOrgEnv, o.OrgName # "", o.EnvName # "") # NoErr
    THEN [err |-> ErrOrgEnv, opts |-> o]
    ELSE LET o1 == [o EXCEPT !.SecretName = name]
             r == visibilityFlags(o1, chg)
         IN  IF r.err # NoErr THEN r
             ELSE IF validSecretName(name) # NoErr
                  THEN [err |-> validSecretName(name), opts |-> r.opts]
                  ELSE r

\* RunE up to the call of setRun: the error it returns there (NoErr when it
\* goes on to setRun) and opts as it leaves them.
validate(name, o, chg) ==
    IF MutuallyExclusive(ErrOrgEnv, o.OrgName # "", o.EnvName # "") # NoErr
    THEN [err |-> ErrOrgEnv, opts |-> o]
    ELSE LET o1 == [o EXCEPT !.SecretName = name]
         IN  IF validSecretName(name) # NoErr
             THEN [err |-> validSecretName(name), opts |-> o1]
             ELSE visibilityFlags(o1, chg)

\* box.SealAnonymous and base64.StdEncoding.EncodeToString, as opaque values
\* of their arguments.
SealAnonymous(b, key) == <<"sealed", b, key.Raw>>
EncodeToString(e) == <<"base64", e>>

\* A call to a collaborator, with what setRun passes and what it gets back.
Call(op, ok, key_id, target, env, name, visibility, repos, value) ==
    [op |-> op, ok |-> ok, key_id |-> key_id, target |-> target, env |-> env,
     name |-> name, visibility |-> visibility, repos |-> repos, value |-> value]

\* pubKeyCall with the organization key fetched for every named target.
pubKeyCall_byAnyName(o) ==
    IF o.OrgName # "" \/ o.EnvName # "" THEN "getOrgPublicKey" ELSE "getRepoPubKey"

\* Which public key setRun fetches.
pubKeyCall(o) == IF o.OrgName # "" THEN "getOrgPublicKey" ELSE "getRepoPubKey"

\* putCall without the environment branch.
putCall_noEnv(o) == IF o.OrgName # "" THEN "putOrgSecret" ELSE "putRepoSecret"

\* Which write setRun makes.
putCall(o) ==
    IF o.OrgName # "" THEN "putOrgSecret"
    ELSE IF o.EnvName # "" THEN "putEnvSecret"
    ELSE "putRepoSecret"

\* The key setRun hands to the write.
putKey(key) == key.ID

\* The repository-name lookups of an organization write: none unless the
\* visibility is selected; otherwise the names in turn, up to the first that
\* does not resolve.
mapRepoNameToID(o) ==
    IF o.OrgName # "" /\ o.Visibility = Selected
    THEN {[looked |-> SubSeq(o.RepositoryNames, 1, k), ok |-> FALSE] :
              k \in 1..Len(o.RepositoryNames)}
             \cup {[looked |-> o.RepositoryNames, ok |-> TRUE]}
    ELSE {[looked |-> <<>>, ok |-> TRUE]}

(***************************************************************************)
(* The invocation.                                                         *)
(***************************************************************************)
Init ==
    /\ argv \in CommandLines
    /\ opts = ParseFlags(argv)
    /\ changed = FlagsChanged(argv)
    /\ pc = "RunE"
    /\ err = NoErr
    /\ calls = <<>>
    /\ lookups = <<>>
    /\ baseRepo = Nil
    /\ pk = Nil
    /\ body = Nil
    /\ encoded = Nil
    /\ out = Nil

\* return fmt.Errorf(...)
Return(e) == pc' = "done" /\ err' = e

RunE ==
    /\ pc = "RunE"
    /\ LET r == validate(argv.name, opts, changed)
       IN  /\ opts' = r.opts
           /\ IF r.err # NoErr
              THEN Return(r.err)
              ELSE pc' = "getBody" /\ err' = err
    /\ UNCHANGED <<argv, changed, calls, lookups, baseRepo, pk, body, encoded, out>>

\* getBody: the --body value, or else a prompt or standard input.
getBody ==
    /\ pc = "getBody"
    /\ IF opts.Body = ""
       THEN \E canPrompt \in BOOLEAN, ok \in BOOLEAN, b \in Bodies :
               IF ~ok
               THEN Return(ErrBody) /\ UNCHANGED <<opts, body>>
               ELSE /\ pc' = "HttpClient" /\ err' = err
                    /\ body' = b
                    /\ opts' = IF canPrompt THEN [opts EXCEPT !.Body = b] ELSE opts
       ELSE /\ pc' = "HttpClient" /\ err' = err
            /\ body' = opts.Body
            /\ opts' = opts
    /\ UNCHANGED <<argv, changed, calls, lookups, baseRepo, pk, encoded, out>>

HttpClient ==
    /\ pc = "HttpClient"
    /\ \E ok \in BOOLEAN :
          IF ~ok
          THEN Return(ErrHttpClient)
          ELSE /\ pc' = IF opts.OrgName = "" THEN "BaseRepo" ELSE "Config"
               /\ err' = err
    /\ UNCHANGED <<argv, opts, changed, calls, lookups, baseRepo, pk, body, encoded, out>>

BaseRepo ==
    /\ pc = "BaseRepo"
    /\ \E ok \in BOOLEAN :
          IF ~ok
          THEN Return(ErrBaseRepo) /\ baseRepo' = baseRepo
          ELSE pc' = "Config" /\ err' = err /\ baseRepo' = "OWNER/REPO"
    /\ UNCHANGED <<argv, opts, changed, calls, lookups, pk, body, encoded, out>>

Config ==
    /\ pc = "Config"
    /\ \E ok \in BOOLEAN :
          IF ~ok
          THEN Return(ErrConfig)
          ELSE pc' = "DefaultHost" /\ err' = err
    /\ UNCHANGED <<argv, opts, changed, calls, lookups, baseRepo, pk, body, encoded, out>>

DefaultHost ==
    /\ pc = "DefaultHost"
    /\ \E ok \in BOOLEAN :
          IF ~ok
          THEN Return(ErrHost)
          ELSE pc' = "getPubKey" /\ err' = err
    /\ UNCHANGED <<argv, opts, changed, calls, lookups, baseRepo, pk, body, encoded, out>>

getPubKey ==
    /\ pc = "getPubKey"
    /\ LET target == IF opts.OrgName # "" THEN opts.OrgName ELSE baseRepo
       IN  \E ok \in BOOLEAN, id \in KeyIds :
              IF ~ok
              THEN /\ calls' = Append(calls,
                          Call(pubKeyCall(opts), FALSE, Nil, target, "", <<>>, "", <<>>, Nil))
                   /\ pk' = pk
                   /\ Return(ErrPubKey)
              ELSE /\ calls' = Append(calls,
                          Call(pubKeyCall(opts), TRUE, id, target, "", <<>>, "", <<>>, Nil))
                   /\ pk' = [ID |-> id, Raw |-> <<"raw", id>>]
                   /\ pc' = "SealAnonymous" /\ err' = err
    /\ UNCHANGED <<argv, opts, changed, lookups, baseRepo, body, encoded, out>>

\* Seal with the encryption error dropped.
Seal_ignoreErr ==
    /\ pc = "SealAnonymous"
    /\ \E ok \in BOOLEAN :
          /\ calls' = Append(calls,
                 Call("SealAnonymous", ok, pk.ID, "", "", <<>>, "", <<>>, body))
          /\ encoded' = EncodeToString(SealAnonymous(body, pk))
          /\ pc' = "putSecret" /\ err' = err
    /\ UNCHANGED <<argv, opts, changed, lookups, baseRepo, pk, body, out>>

Seal ==
    /\ pc = "SealAnonymous"
    /\ \E ok \in BOOLEAN :
          /\ calls' = Append(calls,
                 Call("SealAnonymous", ok, pk.ID, "", "", <<>>, "", <<>>, body))
          /\ IF ~ok
             THEN Return(ErrEncrypt) /\ encoded' = encoded
             ELSE /\ encoded' = EncodeToString(SealAnonymous(body, pk))
                  /\ pc' = "putSecret" /\ err' = err
    /\ UNCHANGED <<argv, opts, changed, lookups, baseRepo, pk, body, out>>

\* The write, and the message on a terminal when it succeeded.
putSecret ==
    /\ pc = "putSecret"
    /\ LET op == putCall(opts)
           target == IF opts.OrgName # "" THEN opts.OrgName ELSE baseRepo
       IN  \E l \in mapRepoNameToID(opts), written \in BOOLEAN, tty \in BOOLEAN :
              LET ok == l.ok /\ written
              IN  /\ lookups' = IF op = "putOrgSecret" THEN l.looked ELSE lookups
                  /\ calls' = Append(calls,
                         Call(op, ok, putKey(pk), target,
                              IF op = "putEnvSecret" THEN opts.EnvName ELSE "",
                              opts.SecretName,
                              IF op = "putOrgSecret" THEN opts.Visibility ELSE "",
                              IF op = "putOrgSecret" THEN opts.RepositoryNames ELSE <<>>,
                              encoded))
                  /\ pc' = "done"
                  /\ err' = IF ok THEN NoErr ELSE ErrSetSecret
                  /\ out' = IF ok /\ tty
                            THEN <<"Set secret", opts.SecretName, target>>
                            ELSE out
    /\ UNCHANGED <<argv, opts, changed, baseRepo, pk, body, encoded>>

Next ==
    \/ RunE
    \/ getBody
    \/ HttpClient
    \/ BaseRepo
    \/ Config
    \/ DefaultHost
    \/ getPubKey
    \/ Seal
    \/ putSecret

Spec == Init /\ [][Next]_vars

(***************************************************************************)
(* Properties.                                                             *)
(***************************************************************************)
Letters == Lower \cup Upper

\* ^[A-Za-z_][A-Za-z0-9_]*$
MatchesIdentifier(name) ==
    /\ Len(name) >= 1
    /\ name[1] \in Letters \cup {"_"}
    /\ \A i \in 2..Len(name) : name[i] \in Letters \cup Digits \cup {"_"}

NameAccepted(name) == MatchesIdentifier(name) /\ ~HasPrefix(name, GITHUB_)

\* The rules of the name validator, in their order.
RuleBlank(name) == Len(name) = 0
RuleReserved(name) == Len(name) >= 7 /\ \A i \in 1..7 : name[i] = GITHUB_[i]
RuleLeadingDigit(name) == Len(name) >= 1 /\ name[1] \in Digits
RuleCharset(name) == \E i \in 1..Len(name) : name[i] \notin Letters \cup Digits \cup {"_"}

FirstNameError(name) ==
    CASE RuleBlank(name) -> ErrBlank
      [] ~RuleBlank(name) /\ RuleReserved(name) -> ErrReserved
      [] ~RuleBlank(name) /\ ~RuleReserved(name) /\ RuleLeadingDigit(name) -> ErrLeadingNumber
      [] OTHER -> ErrChars

\* The rules of the target resolver on the flags as given.
BothTargets == argv.org # "" /\ argv.env # ""
VisibilityRuleViolated ==
    /\ argv.visibility.set
    /\ \/ argv.org = ""
       \/ argv.visibility.val \notin {All, Private, Selected}
       \/ argv.visibility.val # Selected /\ argv.repos.set
       \/ argv.visibility.val = Selected /\ ~argv.repos.set
ResolverRuleViolated == BothTargets \/ VisibilityRuleViolated

FetchOps == {"getOrgPublicKey", "getRepoPubKey"}
PutOps == {"putOrgSecret", "putEnvSecret", "putRepoSecret"}
CallsOf(ops) == {i \in DOMAIN calls : calls[i].op \in ops}

\* The positions inside setRun.
Pipeline ==
    {"getBody", "HttpClient", "BaseRepo", "Config", "DefaultHost",
     "getPubKey", "SealAnonymous", "putSecret"}
\* RunE went on to setRun.
Validated == pc \in Pipeline \/ (pc = "done" /\ err \notin NameErrors \cup FlagErrors)

\* C1: an invocation whose name is invalid or whose flags violate a resolver
\* rule ends in RunE with that error: it never leaves RunE for setRun, makes
\* no key fetch, no encryption, no repository lookup and no write, and does
\* not resolve the base repository.
C1_ErrorBeforeNetwork ==
    (~NameAccepted(argv.name) \/ ResolverRuleViolated) =>
        /\ pc \in {"RunE", "done"}
        /\ pc = "done" => err \in NameErrors \cup FlagErrors
        /\ calls = <<>>
        /\ lookups = <<>>
        /\ baseRepo = Nil

\* Scenario C: --org anOrg --visibility selected without --repos has failed.
C1_Witness ==
    /\ pc = "done"
    /\ NameAccepted(argv.name)
    /\ argv.org = "anOrg" /\ argv.env = ""
    /\ argv.visibility = [set |-> TRUE, val |-> Selected]
    /\ ~argv.repos.set
    /\ err = ErrReposRequired
    /\ calls = <<>>

\* The write the scope of the command line calls for.
ScopeWrite ==
    IF argv.org # "" THEN "putOrgSecret"
    ELSE IF argv.env # "" THEN "putEnvSecret"
    ELSE "putRepoSecret"

\* C2: at most one write call is ever made; an invocation that got through
\* encryption and is done has made exactly one; and a write call that is made
\* is the one of the scope: organization if --org is non-empty, else
\* environment if --env is non-empty, else repository.
C2_ExactlyOneWrite ==
    /\ Cardinality(CallsOf(PutOps)) <= 1
    /\ \A i \in CallsOf(PutOps) : calls[i].op = ScopeWrite
    /\ (pc = "done" /\ \E i \in DOMAIN calls : calls[i].op = "SealAnonymous" /\ calls[i].ok)
           => Cardinality(CallsOf(PutOps)) = 1
    /\ pc = "putSecret" => CallsOf(PutOps) = {}

\* An environment secret has been written with the environment write.
C2_Witness ==
    /\ pc = "done"
    /\ argv.env = "anEnv"
    /\ err = NoErr
    /\ \E i \in DOMAIN calls : calls[i].op = "putEnvSecret" /\ calls[i].env = "anEnv"

\* The error a failed stage returns.
StageError(op) ==
    IF op \in FetchOps THEN ErrPubKey
    ELSE IF op = "SealAnonymous" THEN ErrEncrypt
    ELSE ErrSetSecret

\* C3: the calls are, in this order and each at most once, the key fetch,
\* the encryption and the write; each is made only after the one before it
\* succeeded; a failed call ends the invocation with the error of its stage;
\* and the command succeeds only after a successful write.
C3_SequentialNoRetry ==
    /\ Len(calls) <= 3
    /\ Len(calls) >= 1 => calls[1].op \in FetchOps
    /\ Len(calls) >= 2 => calls[2].op = "SealAnonymous"
    /\ Len(calls) >= 3 => calls[3].op \in PutOps
    /\ \A i \in 1..(Len(calls) - 1) : calls[i].ok
    /\ \A i \in DOMAIN calls :
          ~calls[i].ok => pc = "done" /\ err = StageError(calls[i].op)
    /\ (pc = "done" /\ err = NoErr) => Len(calls) = 3 /\ calls[3].ok

\* The key fetch failed and nothing was called after it.
C3_Witness ==
    /\ pc = "done"
    /\ Len(calls) = 1
    /\ ~calls[1].ok
    /\ err = ErrPubKey
    /\ encoded = Nil

\* C4: with --org and --env both non-empty the command fails in RunE with the
\* mutual-exclusivity error, whatever the name, the visibility and the repos.
C4_OrgEnvExclusive ==
    (BothTargets /\ pc # "RunE") => pc = "done" /\ err = ErrOrgEnv

\* Both targets given together with an invalid name and a bad visibility.
C4_Witness ==
    /\ BothTargets
    /\ ~NameAccepted(argv.name)
    /\ argv.visibility = [set |-> TRUE, val |-> "public"]
    /\ pc = "done"
    /\ err = ErrOrgEnv

\* C5 as stated: an invocation with an invalid name fails with a name error
\* whatever the other flags are.
C5_NameErrorFirst ==
    (~NameAccepted(argv.name) /\ pc # "RunE") => pc = "done" /\ err \in NameErrors

\* C5 amended: an invocation with an invalid name fails in RunE; with the
\* mutual-exclusivity error when --org and --env are both non-empty, and
\* otherwise with the name error, whatever the visibility and repos flags.
C5_NameErrorAfterExclusion ==
    (~NameAccepted(argv.name) /\ pc # "RunE") =>
        /\ pc = "done"
        /\ err = IF BothTargets THEN ErrOrgEnv ELSE FirstNameError(argv.name)

\* An invalid name together with a visibility rule violation: the name error.
C5_Witness ==
    /\ pc = "done"
    /\ ~BothTargets
    /\ VisibilityRuleViolated
    /\ argv.name = <<"9">>
    /\ err = ErrLeadingNumber

\* C6: (when the name is reached, i.e. --org and --env are not both given)
\* the name is accepted exactly if it matches ^[A-Za-z_][A-Za-z0-9_]*$ and
\* does not start with GITHUB_, and is otherwise rejected with the error of
\* the first rule it violates: blank, reserved prefix, leading digit,
\* character set.
C6_ValidSecretName ==
    (~BothTargets /\ pc # "RunE") =>
        /\ NameAccepted(argv.name) <=> err \notin NameErrors
        /\ ~NameAccepted(argv.name) => err = FirstNameError(argv.name)
        /\ argv.name = <<>> => err = ErrBlank
        /\ argv.name = GITHUB_ \o <<"-">> => err = ErrReserved
        /\ argv.name = <<"9", "-", "a">> => err = ErrLeadingNumber
        /\ argv.name = <<"g", "i", "t", "h", "u", "b", "_", "a">> => err \notin NameErrors

\* "9-a" has been rejected for its leading digit.
C6_Witness ==
    /\ pc = "done"
    /\ ~BothTargets
    /\ argv.name = <<"9", "-", "a">>
    /\ err = ErrLeadingNumber

\* C7 as stated: inside setRun the visibility is selected exactly if the list
\* of repository names is non-empty.
C7_SelectedIffRepos ==
    pc \in Pipeline => (opts.Visibility = Selected <=> opts.RepositoryNames # <<>>)

\* C8 as stated: inside setRun with an empty --org the visibility flag was not
\* given, the visibility is not selected and there are no repository names.
C8_VisibilityRequiresOrg ==
    (pc \in Pipeline /\ opts.OrgName = "") =>
        /\ "visibility" \notin changed
        /\ opts.Visibility # Selected
        /\ opts.RepositoryNames = <<>>

\* The key stage has been passed.
KeyStagePassed ==
    \/ pc \in {"SealAnonymous", "putSecret"}
    \/ pc = "done" /\ err \in {ErrPubKey, ErrEncrypt, ErrSetSecret, NoErr}

\* C9: at most one key fetch is ever made and exactly one once the key stage
\* has been passed; it is the organization fetch exactly if --org is
\* non-empty and the repository fetch otherwise, for the resolved base
\* repository; the base repository is resolved only with an empty --org; and
\* a write carries the key identifier that fetch returned.
C9_OneKeyFetchByScope ==
    /\ Cardinality(CallsOf(FetchOps)) <= 1
    /\ KeyStagePassed <=> Cardinality(CallsOf(FetchOps)) = 1
    /\ \A i \in CallsOf(FetchOps) :
          /\ i = 1
          /\ calls[i].op = "getOrgPublicKey" <=> argv.org # ""
          /\ calls[i].op = "getRepoPubKey" <=> argv.org = ""
          /\ calls[i].target = (IF argv.org # "" THEN argv.org ELSE "OWNER/REPO")
    /\ baseRepo # Nil => argv.org = ""
    /\ (KeyStagePassed /\ argv.org = "") => baseRepo # Nil
    /\ \A j \in CallsOf(PutOps) :
          /\ calls[1].ok
          /\ calls[1].key_id \in KeyIds
          /\ calls[j].key_id = calls[1].key_id

\* An environment secret was written under key2, fetched with the repository
\* key fetch.
C9_Witness ==
    /\ pc = "done"
    /\ argv.env = "anEnv"
    /\ Len(calls) = 3
    /\ calls[1].op = "getRepoPubKey" /\ calls[1].key_id = "key2"
    /\ calls[3].op = "putEnvSecret" /\ calls[3].key_id = "key2"

\* C10: without --visibility no visibility or repos rule fails and, once
\* validation succeeded, the visibility is selected if --repos was given and
\* private otherwise; with --visibility and successful validation the
\* visibility is the value given; and the visibility differs from the flag's
\* value in no other case than --repos without --visibility.
C10_VisibilityResolution ==
    /\ (~argv.visibility.set /\ pc = "done") =>
           err \notin {ErrVisNoOrg, ErrVisValue, ErrReposNotSelected, ErrReposRequired}
    /\ (~argv.visibility.set /\ Validated) =>
           opts.Visibility = IF argv.repos.set THEN Selected ELSE Private
    /\ (argv.visibility.set /\ Validated) => opts.Visibility = argv.visibility.val
    /\ opts.Visibility # argv.visibility.val =>
           ~argv.visibility.set /\ argv.repos.set /\ Validated

\* Scenario B: --org anOrg --repos repo1,repo2 without --visibility was written
\* as selected, after looking up both names.
C10_Witness ==
    /\ pc = "done"
    /\ err = NoErr
    /\ argv.org = "anOrg"
    /\ ~argv.visibility.set
    /\ argv.repos = [set |-> TRUE, val |-> <<"repo1", "repo2">>]
    /\ opts.Visibility = Selected
    /\ lookups = <<"repo1", "repo2">>
    /\ calls[3].op = "putOrgSecret" /\ calls[3].visibility = Selected

====
